---------------------------- MODULE Spec2Model ----------------------------
(***************************************************************************)
(* The chatbot conversation state machine of the interior-design backend:  *)
(* ChatbotService (services/chatbotService.js), the ChatMessage model that *)
(* stores its context, and the two transports that drive it (POST          *)
(* /api/chatbot/message and the socket event send-message).                *)
(*                                                                         *)
(* JavaScript strings are TLA+ strings; toLowerCase, includes, replace,    *)
(* the regular expressions and the template literals are computed          *)
(* character by character.  A JavaScript object is a function whose domain *)
(* is the set of properties that are set; reading a property that is not   *)
(* set gives undefined, which a template literal prints as "undefined".    *)
(* Confidences are counted in tenths (0.3 is 3, 0.6 is 6, 1 is 10).        *)
(* Emoji in the response texts are left out of the strings.                *)
(***************************************************************************)
EXTENDS Integers, Sequences, FiniteSets, TLC

VARIABLES
    lastMessage,    \* per sessionId: the newest stored ChatMessage, as <<>> or <<record>>
    last,           \* the request handled last: its input, the locals of processMessage, its outcome
    script,         \* per sessionId: how many messages of Script the session has been sent, in
                    \* order and nothing else, since it had no document (a history variable)
    calls,          \* per request in flight, where its handler is suspended and the locals it
                    \* holds; << >> where requests are handled one at a time
    activeSessions, \* the Map of socketSetup: per socket.id the { sessionId, userId } set last
    rooms           \* per connected socket.id, the session rooms the socket is a member of

vars == <<lastMessage, last, script, calls, activeSessions, rooms>>

---------------------------------------------------------------------------
(* String primitives (String.prototype)                                    *)

LowerLetters == "abcdefghijklmnopqrstuvwxyz"
UpperLetters == "ABCDEFGHIJKLMNOPQRSTUVWXYZ"
Digits == "0123456789"

CharsOf(str) == { SubSeq(str, i, i) : i \in 1..Len(str) }

LowerChars == CharsOf(LowerLetters)
UpperChars == CharsOf(UpperLetters)
DigitChars == CharsOf(Digits)

charAt(s, i) == IF i >= 1 /\ i <= Len(s) THEN SubSeq(s, i, i) ELSE ""

\* s.slice(i) with a 1-based index
slice(s, i) == SubSeq(s, i, Len(s))

IndexIn(str, c) == CHOOSE i \in 1..Len(str) : SubSeq(str, i, i) = c

LowerOf == [c \in UpperChars |-> charAt(LowerLetters, IndexIn(UpperLetters, c))]
UpperOf == [c \in LowerChars |-> charAt(UpperLetters, IndexIn(LowerLetters, c))]
DigitValue == [c \in DigitChars |-> IndexIn(Digits, c) - 1]

toLowerChar(c) == IF c \in UpperChars THEN LowerOf[c] ELSE c

toUpperChar(c) == IF c \in LowerChars THEN UpperOf[c] ELSE c

RECURSIVE toLowerCase(_)
toLowerCase(s) ==
    IF s = "" THEN "" ELSE toLowerChar(charAt(s, 1)) \o toLowerCase(slice(s, 2))

\* s.charAt(0).toUpperCase() + s.slice(1)
Capitalize(s) == toUpperChar(charAt(s, 1)) \o slice(s, 2)

\* s.includes(t)
includes(s, t) ==
    \E i \in 0..(Len(s) - Len(t)) : SubSeq(s, i + 1, i + Len(t)) = t

\* s.replace(a, b) with a string pattern: the first occurrence only
replace(s, a, b) ==
    IF ~includes(s, a) THEN s
    ELSE LET i == CHOOSE k \in 0..(Len(s) - Len(a)) :
                      /\ SubSeq(s, k + 1, k + Len(a)) = a
                      /\ \A j \in 0..(k - 1) : SubSeq(s, j + 1, j + Len(a)) # a
         IN  SubSeq(s, 1, i) \o b \o SubSeq(s, i + Len(a) + 1, Len(s))

WhiteSpace == {" ", "\t", "\n", "\r"}

\* s.trim()
RECURSIVE trim(_)
trim(s) ==
    IF s = "" THEN ""
    ELSE IF charAt(s, 1) \in WhiteSpace THEN trim(slice(s, 2))
    ELSE IF charAt(s, Len(s)) \in WhiteSpace THEN trim(SubSeq(s, 1, Len(s) - 1))
    ELSE s

\* parseInt of a string of decimal digits
RECURSIVE parseInt(_)
parseInt(s) ==
    IF s = "" THEN 0
    ELSE 10 * parseInt(SubSeq(s, 1, Len(s) - 1)) + DigitValue[charAt(s, Len(s))]

---------------------------------------------------------------------------
(* Regular expressions.  A pattern is a sequence of items: a character     *)
(* class with a greedy quantifier {min,max}, or the assertion \b.  Exec    *)
(* gives what RegExp.prototype.exec gives: the leftmost match, and among   *)
(* the matches at that place the one greedy backtracking finds first.      *)

NoMatch == 0 - 1
\* the quantifiers + and {2,} have no upper limit: RunLength never counts this down to 0
Unbounded == 0 - 1

WordChars == LowerChars \cup UpperChars \cup DigitChars \cup {"_"}

Cls(set, lo, hi) == [kind |-> "cls", set |-> set, min |-> lo, max |-> hi]
WordBoundary == [kind |-> "wb", set |-> {}, min |-> 0, max |-> 0]

IsWordAt(s, i) == charAt(s, i) \in WordChars

\* the longest run of characters of set that starts at position pos, at most cap long
RECURSIVE RunLength(_, _, _, _)
RunLength(s, pos, set, cap) ==
    IF cap = 0 \/ pos > Len(s) \/ ~(charAt(s, pos) \in set) THEN 0
    ELSE 1 + RunLength(s, pos + 1, set, cap - 1)

\* the position after the match of items[k..] that starts at pos, or NoMatch
RECURSIVE MatchFrom(_, _, _, _)
RECURSIVE TryCounts(_, _, _, _, _)
MatchFrom(items, k, s, pos) ==
    IF k > Len(items) THEN pos
    ELSE IF items[k].kind = "wb"
         THEN IF IsWordAt(s, pos - 1) # IsWordAt(s, pos)
              THEN MatchFrom(items, k + 1, s, pos)
              ELSE NoMatch
         ELSE TryCounts(items, k, s, pos, RunLength(s, pos, items[k].set, items[k].max))

\* greedy: the longest repetition first, then shorter ones down to min
TryCounts(items, k, s, pos, c) ==
    IF c < items[k].min THEN NoMatch
    ELSE LET r == MatchFrom(items, k + 1, s, pos + c)
         IN  IF r # NoMatch THEN r ELSE TryCounts(items, k, s, pos, c - 1)

\* alternatives in the order the engine tries them
RECURSIVE MatchAlt(_, _, _, _)
MatchAlt(alts, a, s, pos) ==
    IF a > Len(alts) THEN NoMatch
    ELSE LET r == MatchFrom(alts[a], 1, s, pos)
         IN  IF r # NoMatch THEN r ELSE MatchAlt(alts, a + 1, s, pos)

RECURSIVE ExecFrom(_, _, _)
ExecFrom(alts, s, pos) ==
    IF pos > Len(s) + 1 THEN ""
    ELSE LET r == MatchAlt(alts, 1, s, pos)
         IN  IF r # NoMatch THEN SubSeq(s, pos, r - 1) ELSE ExecFrom(alts, s, pos + 1)

\* regex.test(s): none of the patterns here matches the empty string
test(alts, s) == \E pos \in 1..Len(s) : MatchAlt(alts, 1, s, pos) # NoMatch

\* s.match(regex)[0]
match0(alts, s) == ExecFrom(alts, s, 1)

---------------------------------------------------------------------------
(* JavaScript objects                                                      *)

EmptyObject == [p \in {} |-> ""]

Has(obj, p) == p \in DOMAIN obj

\* obj.p = v
Put(obj, p, v) == [q \in (DOMAIN obj) \cup {p} |-> IF q = p THEN v ELSE obj[q]]

\* `${obj.p}` in a template literal
Interpolate(obj, p) == IF Has(obj, p) THEN obj[p] ELSE "undefined"

\* obj.p in a boolean position, for a string property
Truthy(obj, p) == Has(obj, p) /\ obj[p] # ""

\* the properties of obj that are among keep
Restrict(obj, keep) == [q \in (DOMAIN obj) \cap keep |-> obj[q]]

---------------------------------------------------------------------------
(* Reference tables, as Object.entries lists them                          *)

CONVERSATION_STEPS ==
    << "greeting", "project_type", "room_type", "design_style", "budget", "timeline",
       "room_size", "contact_info", "additional_notes", "complete" >>

DESIGN_STYLES ==
    << <<"modern", "Clean lines, minimal decoration, and a focus on function">>,
       <<"traditional", "Classic elegance with rich colors and ornate details">>,
       <<"contemporary", "Current trends with clean, sophisticated aesthetics">>,
       <<"minimalist", "Simple, uncluttered spaces with essential elements only">>,
       <<"industrial", "Raw materials, exposed elements, and urban aesthetics">>,
       <<"scandinavian", "Light, airy spaces with natural materials and functionality">>,
       <<"bohemian", "Eclectic, artistic, and free-spirited design">>,
       <<"coastal", "Relaxed, beach-inspired with light colors and natural textures">>,
       <<"farmhouse", "Rustic charm with modern comfort and vintage elements">>,
       <<"mid-century", "Retro style from the 1950s-60s with clean lines">>,
       <<"art-deco", "Luxurious, geometric patterns and bold colors">>,
       <<"other", "Custom or mixed style approach">> >>

BUDGET_RANGES ==
    << <<"under-10k", "Under $10,000">>,
       <<"10k-25k", "$10,000 - $25,000">>,
       <<"25k-50k", "$25,000 - $50,000">>,
       <<"50k-100k", "$50,000 - $100,000">>,
       <<"over-100k", "Over $100,000">> >>

TIMELINE_OPTIONS ==
    << <<"1-3-months", "1-3 months">>,
       <<"3-6-months", "3-6 months">>,
       <<"6-12-months", "6-12 months">>,
       <<"over-12-months", "Over 12 months">> >>

Keys(table) == { table[i][1] : i \in 1..Len(table) }

\* key in table
In(key, table) == key \in Keys(table)

\* table[key], printed in a template literal
Lookup(table, key) ==
    IF In(key, table)
    THEN table[CHOOSE i \in 1..Len(table) : table[i][1] = key][2]
    ELSE "undefined"

\* Object.entries(table).map(line).join('\n') for the three bullet lists
RECURSIVE JoinLines(_)
JoinLines(lines) ==
    IF Len(lines) = 0 THEN ""
    ELSE IF Len(lines) = 1 THEN lines[1]
    ELSE lines[1] \o "\n" \o JoinLines(Tail(lines))

StyleLines == [i \in 1..Len(DESIGN_STYLES) |->
                  "* " \o Capitalize(DESIGN_STYLES[i][1]) \o ": " \o DESIGN_STYLES[i][2]]
BudgetLines == [i \in 1..Len(BUDGET_RANGES) |-> "* " \o BUDGET_RANGES[i][2]]
TimelineLines == [i \in 1..Len(TIMELINE_OPTIONS) |-> "* " \o TIMELINE_OPTIONS[i][2]]

StyleList == JoinLines(StyleLines)
BudgetList == JoinLines(BudgetLines)
TimelineList == JoinLines(TimelineLines)

---------------------------------------------------------------------------
(* analyzeIntent                                                           *)

roomTypes ==
    << "living room", "bedroom", "kitchen", "bathroom", "dining room", "office",
       "basement", "outdoor" >>

Letters == LowerChars \cup UpperChars
Separators == {"-", ".", " "}

\* /\b[A-Za-z0-9._%+-]+@[A-Za-z0-9.-]+\.[A-Z|a-z]{2,}\b/
emailPattern ==
    << << WordBoundary,
          Cls(Letters \cup DigitChars \cup {".", "_", "%", "+", "-"}, 1, Unbounded),
          Cls({"@"}, 1, 1),
          Cls(Letters \cup DigitChars \cup {".", "-"}, 1, Unbounded),
          Cls({"."}, 1, 1),
          Cls(Letters \cup {"|"}, 2, Unbounded),
          WordBoundary >> >>

phoneNumber ==
    << Cls({"("}, 0, 1), Cls(DigitChars, 3, 3), Cls({")"}, 0, 1), Cls(Separators, 0, 1),
       Cls(DigitChars, 3, 3), Cls(Separators, 0, 1), Cls(DigitChars, 4, 4) >>

\* /(\+\d{1,3}[-. ]?)?\(?\d{3}\)?[-. ]?\d{3}[-. ]?\d{4}/ : the optional group is
\* tried first, then the pattern without it
phonePattern ==
    << << Cls({"+"}, 1, 1), Cls(DigitChars, 1, 3), Cls(Separators, 0, 1) >> \o phoneNumber,
       phoneNumber >>

\* /\d+/g
numberPattern == << << Cls(DigitChars, 1, Unbounded) >> >>

Intent(type, confidence) == [type |-> type, confidence |-> confidence]
IntentWithData(type, confidence, data) == [type |-> type, confidence |-> confidence, data |-> data]

\* the default intent with the confidence of a keyword rule
UnknownIntentConfident == Intent("unknown", 7)

UnknownIntent == Intent("unknown", 3)

\* the first entry of list (from index i) that the lower-cased message includes
RECURSIVE FirstIncluded(_, _, _)
FirstIncluded(lowerMessage, list, i) ==
    IF i > Len(list) THEN ""
    ELSE IF includes(lowerMessage, list[i]) THEN list[i]
    ELSE FirstIncluded(lowerMessage, list, i + 1)

\* per band: range.replace('-', ' ') and label.toLowerCase()
BandPatterns(table) ==
    [i \in 1..Len(table) |-> << replace(table[i][1], "-", " "), toLowerCase(table[i][2]) >>]

BudgetPatterns == BandPatterns(BUDGET_RANGES)
TimelinePatterns == BandPatterns(TIMELINE_OPTIONS)

\* the first band (from index i) of which the message includes one of the two patterns
RECURSIVE FirstBand(_, _, _, _)
FirstBand(lowerMessage, table, patterns, i) ==
    IF i > Len(table) THEN ""
    ELSE IF \/ includes(lowerMessage, patterns[i][1])
            \/ includes(lowerMessage, patterns[i][2])
         THEN table[i][1]
    ELSE FirstBand(lowerMessage, table, patterns, i + 1)

\* a matcher that treats the style keys as it treats the band keys
StyleKeysReplaced == [i \in 1..Len(DESIGN_STYLES) |-> replace(DESIGN_STYLES[i][1], "-", " ")]

\* the keys of DESIGN_STYLES in the order the loop visits them
StyleKeys == [i \in 1..Len(DESIGN_STYLES) |-> DESIGN_STYLES[i][1]]

\* a bucketing that counts each limit to the lower band
BudgetOfNumberInclusive(budget) ==
    IF budget <= 10000 THEN "under-10k"
    ELSE IF budget <= 25000 THEN "10k-25k"
    ELSE IF budget <= 50000 THEN "25k-50k"
    ELSE IF budget <= 100000 THEN "50k-100k"
    ELSE "over-100k"

BudgetOfNumber(budget) ==
    IF budget < 10000 THEN "under-10k"
    ELSE IF budget < 25000 THEN "10k-25k"
    ELSE IF budget < 50000 THEN "25k-50k"
    ELSE IF budget < 100000 THEN "50k-100k"
    ELSE "over-100k"

analyzeIntent(message, currentStep) ==
    LET lowerMessage == toLowerCase(message) IN
    CASE currentStep = "greeting" ->
           IF \/ includes(lowerMessage, "hello")
              \/ includes(lowerMessage, "hi")
              \/ includes(lowerMessage, "hey")
           THEN Intent("greeting", 9)
           ELSE UnknownIntent
      [] currentStep = "project_type" ->
           IF \/ includes(lowerMessage, "residential")
              \/ includes(lowerMessage, "home")
              \/ includes(lowerMessage, "house")
           THEN Intent("residential", 8)
           ELSE IF \/ includes(lowerMessage, "commercial")
                   \/ includes(lowerMessage, "office")
                   \/ includes(lowerMessage, "business")
           THEN Intent("commercial", 8)
           ELSE IF \/ includes(lowerMessage, "renovation")
                   \/ includes(lowerMessage, "remodel")
           THEN Intent("renovation", 7)
           ELSE UnknownIntent
      [] currentStep = "room_type" ->
           LET roomType == FirstIncluded(lowerMessage, roomTypes, 1)
           IN  IF roomType # "" THEN Intent(roomType, 8) ELSE UnknownIntent
      [] currentStep = "design_style" ->
           LET style == FirstIncluded(lowerMessage, StyleKeys, 1)
           IN  IF style # "" THEN Intent(style, 8) ELSE UnknownIntent
      [] currentStep = "budget" ->
           LET range == FirstBand(lowerMessage, BUDGET_RANGES, BudgetPatterns, 1)
           IN  IF range # "" THEN Intent(range, 8)
               ELSE IF test(numberPattern, lowerMessage)
               THEN Intent(BudgetOfNumber(parseInt(match0(numberPattern, lowerMessage))), 7)
               ELSE UnknownIntent
      [] currentStep = "timeline" ->
           LET timeline == FirstBand(lowerMessage, TIMELINE_OPTIONS, TimelinePatterns, 1)
           IN  IF timeline # "" THEN Intent(timeline, 8) ELSE UnknownIntent
      [] currentStep = "contact_info" ->
           IF test(emailPattern, message)
           THEN IntentWithData("email", 9, match0(emailPattern, message))
           ELSE IF test(phonePattern, message)
           THEN IntentWithData("phone", 9, match0(phonePattern, message))
           ELSE IF includes(lowerMessage, "name") \/ includes(lowerMessage, "call me")
           THEN Intent("name", 7)
           ELSE UnknownIntent
      [] OTHER -> UnknownIntent


---------------------------------------------------------------------------
(* The step handlers.  Each gives the response and the context object it   *)
(* was handed, as the handler leaves it (the handlers write into it).      *)

Response(message, nextStep, isComplete) ==
    [message |-> message, nextStep |-> nextStep, isComplete |-> isComplete]

Handled(response, context) == [response |-> response, context |-> context]

\* context.collectedData.p = v
SetCollected(context, p, v) ==
    [context EXCEPT !.collectedData = Put(context.collectedData, p, v)]

handleGreeting(intent) ==
    IF intent.type = "greeting"
    THEN Response("Hello! I'm your interior design assistant. I'm here to help you plan your perfect space! What type of project are you thinking about? (residential, commercial, or renovation?)",
                  "project_type", FALSE)
    ELSE Response("Hi there! I'm excited to help you with your interior design project. What type of project are you planning?",
                  "project_type", FALSE)

handleProjectType(intent, context) ==
    IF intent.type = "residential"
    THEN Handled(Response("Great choice! Residential projects are our specialty. Which room are you looking to design? (living room, bedroom, kitchen, bathroom, etc.)",
                          "room_type", FALSE),
                 SetCollected(context, "projectType", "residential"))
    ELSE IF intent.type = "commercial"
    THEN Handled(Response("Excellent! Commercial spaces require special attention to functionality and branding. What type of commercial space? (office, retail, restaurant, etc.)",
                          "room_type", FALSE),
                 SetCollected(context, "projectType", "commercial"))
    ELSE IF intent.type = "renovation"
    THEN Handled(Response("Renovations are exciting! Which area are you renovating? (kitchen, bathroom, entire home, etc.)",
                          "room_type", FALSE),
                 SetCollected(context, "projectType", "renovation"))
    ELSE Handled(Response("I'd love to help! What type of project are you planning? You can choose from:\n* Residential (homes, apartments)\n* Commercial (offices, retail spaces)\n* Renovation (updating existing spaces)",
                          "project_type", FALSE),
                 context)

handleRoomType(intent, context) ==
    LET roomType == intent.type IN
    Handled(Response("Perfect! " \o Capitalize(roomType)
                       \o "s are wonderful spaces to design. What's your preferred design style? Here are some popular options:\n\n"
                       \o StyleList,
                     "design_style", FALSE),
            SetCollected(context, "roomType", roomType))

handleDesignStyle(intent, context) ==
    IF In(intent.type, DESIGN_STYLES)
    THEN Handled(Response("Beautiful choice! " \o Capitalize(intent.type) \o " style is "
                            \o Lookup(DESIGN_STYLES, intent.type)
                            \o ". Now, let's talk budget. What's your budget range for this project?\n\n"
                            \o BudgetList,
                          "budget", FALSE),
                 SetCollected(context, "designStyle", intent.type))
    ELSE Handled(Response("I'd love to know your design preference! Which style appeals to you most? You can choose from modern, traditional, contemporary, minimalist, industrial, scandinavian, bohemian, coastal, farmhouse, mid-century, art-deco, or other.",
                          "design_style", FALSE),
                 context)

\* handleBudget that takes only a band named in the message, not the numeric fallback
handleBudgetNamed(intent, context) ==
    IF In(intent.type, BUDGET_RANGES) /\ intent.confidence > 7
    THEN Handled(Response("Perfect! " \o Lookup(BUDGET_RANGES, intent.type)
                            \o " is a great budget range. What's your timeline for this project?\n\n"
                            \o TimelineList,
                          "timeline", FALSE),
                 SetCollected(context, "budget", intent.type))
    ELSE Handled(Response("Understanding your budget helps us plan the perfect project! What's your budget range? You can choose from under $10,000, $10,000-$25,000, $25,000-$50,000, $50,000-$100,000, or over $100,000.",
                          "budget", FALSE),
                 context)

handleBudget(intent, context) ==
    IF In(intent.type, BUDGET_RANGES)
    THEN Handled(Response("Perfect! " \o Lookup(BUDGET_RANGES, intent.type)
                            \o " is a great budget range. What's your timeline for this project?\n\n"
                            \o TimelineList,
                          "timeline", FALSE),
                 SetCollected(context, "budget", intent.type))
    ELSE Handled(Response("Understanding your budget helps us plan the perfect project! What's your budget range? You can choose from under $10,000, $10,000-$25,000, $25,000-$50,000, $50,000-$100,000, or over $100,000.",
                          "budget", FALSE),
                 context)

\* a timeline handler that moves on whatever the intent
handleTimelineAlways(intent, context) ==
    Handled(Response("Great! " \o Lookup(TIMELINE_OPTIONS, intent.type)
                       \o " gives us good time to plan. What's the approximate size of the space? (e.g., 500 sq ft, small bedroom, large open concept, etc.)",
                     "room_size", FALSE),
            SetCollected(context, "timeline", intent.type))

handleTimeline(intent, context) ==
    IF In(intent.type, TIMELINE_OPTIONS)
    THEN Handled(Response("Great! " \o Lookup(TIMELINE_OPTIONS, intent.type)
                            \o " gives us good time to plan. What's the approximate size of the space? (e.g., 500 sq ft, small bedroom, large open concept, etc.)",
                          "room_size", FALSE),
                 SetCollected(context, "timeline", intent.type))
    ELSE Handled(Response("Timeline is important for planning! When would you like to complete this project? You can choose from 1-3 months, 3-6 months, 6-12 months, or over 12 months.",
                          "timeline", FALSE),
                 context)

handleRoomSize(message, context) ==
    Handled(Response("Thanks! Now I'd love to get your contact information so our team can reach out with a personalized proposal. What's your name?",
                     "contact_info", FALSE),
            SetCollected(context, "roomSize", message))

\* handleContactInfo with a branch that takes a phone number as the email is taken
handleContactInfoPhone(intent, message, context) ==
    IF intent.type = "phone"
    THEN Handled(Response("Perfect! Finally, do you have any specific requirements or additional notes about your project? (e.g., must-have features, special considerations, etc.)",
                          "additional_notes", FALSE),
                 SetCollected(context, "phone", intent.data))
    ELSE IF intent.type = "name"
    THEN Handled(Response("Nice to meet you! What's your email address so we can send you our proposal?",
                          "contact_info", FALSE),
                 SetCollected(context, "name", message))
    ELSE IF intent.type = "email"
    THEN Handled(Response("Perfect! Finally, do you have any specific requirements or additional notes about your project? (e.g., must-have features, special considerations, etc.)",
                          "additional_notes", FALSE),
                 SetCollected(context, "email", intent.data))
    ELSE IF Truthy(context.collectedData, "name") /\ Truthy(context.collectedData, "email")
    THEN Handled(Response("Great! Do you have any specific requirements or additional notes about your project? (e.g., must-have features, special considerations, etc.)",
                          "additional_notes", FALSE),
                 context)
    ELSE Handled(Response("I'd love to get your contact information! What's your name?",
                          "contact_info", FALSE),
                 context)

handleContactInfo(intent, message, context) ==
    IF intent.type = "name"
    THEN Handled(Response("Nice to meet you! What's your email address so we can send you our proposal?",
                          "contact_info", FALSE),
                 SetCollected(context, "name", message))
    ELSE IF intent.type = "email"
    THEN Handled(Response("Perfect! Finally, do you have any specific requirements or additional notes about your project? (e.g., must-have features, special considerations, etc.)",
                          "additional_notes", FALSE),
                 SetCollected(context, "email", intent.data))
    ELSE IF Truthy(context.collectedData, "name") /\ Truthy(context.collectedData, "email")
    THEN Handled(Response("Great! Do you have any specific requirements or additional notes about your project? (e.g., must-have features, special considerations, etc.)",
                          "additional_notes", FALSE),
                 context)
    ELSE Handled(Response("I'd love to get your contact information! What's your name?",
                          "contact_info", FALSE),
                 context)

nextSteps ==
    << "Our design team will review your requirements",
       "You'll receive a personalized proposal within 24 hours",
       "We'll schedule a consultation to discuss your project in detail" >>

\* the summary of handleAdditionalNotes, from the collected data it reads
Summary(collectedData) ==
    "Perfect! Thank you for sharing your project details with me. Here's a summary of what we discussed:\n\n"
      \o "* Project Type: " \o Interpolate(collectedData, "projectType") \o "\n"
      \o "* Room Type: " \o Interpolate(collectedData, "roomType") \o "\n"
      \o "* Design Style: " \o Interpolate(collectedData, "designStyle") \o "\n"
      \o "* Budget: " \o Lookup(BUDGET_RANGES, Interpolate(collectedData, "budget")) \o "\n"
      \o "* Timeline: " \o Lookup(TIMELINE_OPTIONS, Interpolate(collectedData, "timeline")) \o "\n"
      \o "* Room Size: " \o Interpolate(collectedData, "roomSize") \o "\n\n"
      \o "Our team will review your requirements and get back to you within 24 hours with a personalized proposal. We're excited to help bring your vision to life!"

handleAdditionalNotes(message, context) ==
    LET written == SetCollected(context, "additionalNotes", message) IN
    Handled([message |-> Summary(written.collectedData),
             nextStep |-> "complete",
             isComplete |-> TRUE,
             nextSteps |-> nextSteps],
            written)

generateResponse(message, currentStep, intent, context) ==
    CASE currentStep = "greeting" -> Handled(handleGreeting(intent), context)
      [] currentStep = "project_type" -> handleProjectType(intent, context)
      [] currentStep = "room_type" -> handleRoomType(intent, context)
      [] currentStep = "design_style" -> handleDesignStyle(intent, context)
      [] currentStep = "budget" -> handleBudget(intent, context)
      [] currentStep = "timeline" -> handleTimeline(intent, context)
      [] currentStep = "room_size" -> handleRoomSize(message, context)
      [] currentStep = "contact_info" -> handleContactInfo(intent, message, context)
      [] currentStep = "additional_notes" -> handleAdditionalNotes(message, context)
      [] OTHER ->
           Handled(Response("I'm here to help you with your interior design project! What type of project are you planning?",
                            "project_type", FALSE),
                   context)


---------------------------------------------------------------------------
(* The ChatMessage model.  Of the collection only the newest document of   *)
(* each session is kept: it is the one document that findOne({sessionId})  *)
(* .sort({createdAt: -1}) and find(...).limit(1) read.  metadata,          *)
(* isResolved and the timestamps are not modelled.                         *)

\* a JavaScript value received as data.message: a string or a number (val is its String())
Str(s) == [type |-> "string", val |-> s]
Num(digits) == [type |-> "number", val |-> digits]

\* !value
Falsy(value) ==
    \/ value.type = "string" /\ value.val = ""
    \/ value.type = "number" /\ parseInt(value.val) = 0

messageMaxlength == 1000
responseMaxlength == 2000
intentMaxlength == 100
confidenceMax == 10

collectedDataPaths ==
    { "name", "email", "phone", "projectType", "roomSize", "budget", "timeline",
      "designStyle", "additionalNotes" }

userPreferencesPaths == { "designStyle", "budget", "roomType", "timeline" }

\* pre('save'): delete the properties that are empty strings
RemoveEmpty(obj) == Restrict(obj, { p \in DOMAIN obj : obj[p] # "" })

\* the nested path context of a document: the schema keeps the declared paths only
\* (strict mode), and collectedData and userPreferences always read as objects
CastContext(context) ==
    LET sub(p, paths) == IF Has(context, p) THEN Restrict(context[p], paths) ELSE EmptyObject
    IN  [p \in {"collectedData", "userPreferences"}
                  \cup (IF Has(context, "currentStep") THEN {"currentStep"} ELSE {}) |->
            CASE p = "currentStep" -> trim(context.currentStep)
              [] p = "collectedData" -> sub(p, collectedDataPaths)
              [] p = "userPreferences" -> sub(p, userPreferencesPaths)]

\* new ChatMessage({...}): the fields cast by the schema (String cast, trim)
ChatMessage(sessionId, userId, message, response, messageType, intent, confidence, context) ==
    [sessionId |-> sessionId,
     userId |-> userId,
     message |-> trim(message.val),
     response |-> trim(response),
     messageType |-> messageType,
     intent |-> trim(intent),
     confidence |-> confidence,
     context |-> CastContext(context)]

\* the validators of the schema; required fails for an empty string
Validates(doc) ==
    /\ doc.sessionId # ""
    /\ doc.userId # ""
    /\ doc.message # "" /\ Len(doc.message) <= messageMaxlength
    /\ doc.response # "" /\ Len(doc.response) <= responseMaxlength
    /\ doc.messageType \in {"user", "bot"}
    /\ Len(doc.intent) <= intentMaxlength
    /\ doc.confidence >= 0 /\ doc.confidence <= confidenceMax

\* the pre('save') middleware
preSave(doc) ==
    [doc EXCEPT !.context =
        [p \in DOMAIN doc.context |->
            IF p = "currentStep" THEN doc.context[p] ELSE RemoveEmpty(doc.context[p])]]

\* the collection db after doc.save() succeeded
Saved(db, doc) == [db EXCEPT ![doc.sessionId] = << preSave(doc) >>]

---------------------------------------------------------------------------
(* ChatbotService                                                          *)

\* an initial context that already asks for the project type
InitialContextAsking ==
    [currentStep |-> "project_type", collectedData |-> EmptyObject,
     userPreferences |-> EmptyObject]

InitialContext ==
    [currentStep |-> "greeting", collectedData |-> EmptyObject, userPreferences |-> EmptyObject]

\* lastMessage.context of a document is a nested path, which is always an object
\* a loader whose default context starts one step further
getConversationContextSkipping(db, sessionId) ==
    IF db[sessionId] # << >> THEN db[sessionId][1].context
    ELSE [currentStep |-> "project_type", collectedData |-> EmptyObject,
          userPreferences |-> EmptyObject]

getConversationContext(db, sessionId) ==
    IF db[sessionId] # << >> THEN db[sessionId][1].context ELSE InitialContext

confidenceThreshold == 6

\* a gate that looks at the intent type only
CommitsAny(intent) == intent.type # ""

\* if (intent.type && intent.confidence > 0.6)
Commits(intent) == intent.type # "" /\ intent.confidence > confidenceThreshold

updateContext(db, sessionId, currentStep, intent, message, response) ==
    LET context == getConversationContext(db, sessionId)
        stepped == Put(context, "currentStep",
                       IF response.nextStep # "" THEN response.nextStep ELSE currentStep)
    IN  IF Commits(intent)
        THEN CASE currentStep = "project_type" -> SetCollected(stepped, "projectType", intent.type)
               [] currentStep = "room_type" -> SetCollected(stepped, "roomType", intent.type)
               [] currentStep = "design_style" -> SetCollected(stepped, "designStyle", intent.type)
               [] currentStep = "budget" -> SetCollected(stepped, "budget", intent.type)
               [] currentStep = "timeline" -> SetCollected(stepped, "timeline", intent.type)
               [] currentStep = "contact_info" ->
                    IF intent.type = "email" THEN SetCollected(stepped, "email", intent.data)
                    ELSE IF intent.type = "name" THEN SetCollected(stepped, "name", message)
                    ELSE stepped
               [] OTHER -> stepped
        ELSE stepped

\* the locals of processMessage for a string message
Locals(db, message, sessionId) ==
    LET context == getConversationContext(db, sessionId)
        currentStep == IF Truthy(context, "currentStep") THEN context.currentStep ELSE "greeting"
        Responded(intent, handled) ==
            [context |-> context,
             currentStep |-> currentStep,
             intent |-> intent,
             response |-> handled.response,
             working |-> handled.context,
             updatedContext |->
                 updateContext(db, sessionId, currentStep, intent, message, handled.response)]
        Analyzed(intent) ==
            Responded(intent, generateResponse(message, currentStep, intent, context))
    IN  Analyzed(analyzeIntent(message, currentStep))

\* an error outcome that passes for an unknown intent
ErrorOutcomeUnknown ==
    [response |-> "I'm sorry, I'm having trouble processing your message. Please try again or contact our team directly.",
     intent |-> "unknown",
     confidence |-> 3,
     context |-> InitialContext,
     isComplete |-> FALSE]

ErrorOutcome ==
    [response |-> "I'm sorry, I'm having trouble processing your message. Please try again or contact our team directly.",
     intent |-> "error",
     confidence |-> 0,
     context |-> EmptyObject,
     isComplete |-> FALSE]

\* message.toLowerCase() throws for a message that is no string
Throws(message) == message.type # "string"

\* the return statement of processMessage, from its locals l
Returns(l) ==
    LET outcome == [response |-> l.response.message,
                    intent |-> l.intent.type,
                    confidence |-> l.intent.confidence,
                    context |-> l.updatedContext,
                    isComplete |-> l.response.isComplete]
    IN  IF Has(l.response, "nextSteps")
        THEN [p \in (DOMAIN outcome) \cup {"nextSteps"} |->
                 IF p = "nextSteps" THEN l.response.nextSteps ELSE outcome[p]]
        ELSE outcome

processMessage(db, message, sessionId) ==
    IF Throws(message) THEN ErrorOutcome
    ELSE Returns(Locals(db, message.val, sessionId))


---------------------------------------------------------------------------
(* The transports: POST /api/chatbot/message and the socket event          *)
(* send-message; POST /api/chatbot/session, which stores the first         *)
(* ChatMessage of a new session.                                           *)

Sessions == { "s1" }
Users == { "u1" }

\* the terminal scenario: ten messages sent one after another
Script ==
    << "hi", "residential", "kitchen", "modern", "10k-25k", "3-6-months", "200 sq ft",
       "John", "john@example.com", "no special requests" >>

\* the message texts the clients send
Messages ==
    { Script[i] : i \in 1..Len(Script) }
      \cup { "3-6 months", "my name is John", "my budget is 30000", "555-123-4567" }

\* the design style keys, with the three messages that lead to the step design_style
StyleMessages == Keys(DESIGN_STYLES) \cup { Script[1], Script[2], Script[3] }

\* data.message of send-message, which the handler only tests for truthiness
SocketMessages == { Str(m) : m \in Messages } \cup { Num("42") }

Merge(a, b) == [p \in (DOMAIN a) \cup (DOMAIN b) |-> IF p \in DOMAIN b THEN b[p] ELSE a[p]]

\* what the handler emits or answers
Reply(op, botResponse, botSaved) ==
    IF op = "POST /message"
    THEN (IF botSaved THEN << "200" >> ELSE << "500" >>)
    ELSE IF ~botSaved THEN << "error" >>
    ELSE IF botResponse.isComplete THEN << "new-message", "conversation-complete" >>
    ELSE << "new-message" >>

\* new ChatMessage({...}) for the user document and for the bot document
UserMessage(sessionId, userId, message, botResponse) ==
    ChatMessage(sessionId, userId, message, botResponse.response, "user",
                botResponse.intent, botResponse.confidence, botResponse.context)

BotMessage(sessionId, userId, botResponse) ==
    ChatMessage(sessionId, userId, Str(botResponse.response), "", "bot",
                botResponse.intent, botResponse.confidence, botResponse.context)

\* what both handlers do with a message, from the collection db: processMessage, then
\* the user document and the bot document are saved one after the other; a save that
\* fails validation throws and ends the handler in its catch.  Gives the collection
\* afterwards and the record of the request.
Exchange(db, op, sessionId, userId, message) ==
    LET context == getConversationContext(db, sessionId)
        locals == IF Throws(message) THEN EmptyObject
                  ELSE Restrict(Locals(db, message.val, sessionId),
                                {"intent", "response", "working"})
        Stores(botResponse, userMessage, botMessage, userSaved, botSaved) ==
            [db |-> IF botSaved THEN Saved(Saved(db, userMessage), botMessage)
                    ELSE IF userSaved THEN Saved(db, userMessage)
                    ELSE db,
             request |->
                 Merge([op |-> op,
                        sessionId |-> sessionId,
                        message |-> message,
                        threw |-> Throws(message),
                        found |-> db[sessionId] # << >>,
                        context |-> context,
                        currentStep |-> IF Truthy(context, "currentStep")
                                        THEN context.currentStep ELSE "greeting",
                        botResponse |-> botResponse,
                        saved |-> (IF userSaved THEN << preSave(userMessage) >> ELSE << >>)
                                    \o (IF botSaved THEN << preSave(botMessage) >> ELSE << >>),
                        reply |-> Reply(op, botResponse, botSaved)],
                       locals)]
        Saves(botResponse, userMessage, botMessage) ==
            Stores(botResponse, userMessage, botMessage, Validates(userMessage),
                   Validates(userMessage) /\ Validates(botMessage))
        Responds(botResponse) ==
            Saves(botResponse, UserMessage(sessionId, userId, message, botResponse),
                  BotMessage(sessionId, userId, botResponse))
    IN  Responds(processMessage(db, message, sessionId))

Handle(op, sessionId, userId, message) ==
    \E exchange \in { Exchange(lastMessage, op, sessionId, userId, message) } :
        /\ lastMessage' = exchange.db
        /\ last' = exchange.request
        /\ script' = [script EXCEPT ![sessionId] =
                         IF lastMessage[sessionId] = << >> /\ message = Str(Script[1]) THEN 1
                         ELSE IF /\ script[sessionId] \in 1..(Len(Script) - 1)
                                 /\ message = Str(Script[script[sessionId] + 1])
                              THEN script[sessionId] + 1
                         ELSE 0]
        /\ UNCHANGED << calls, activeSessions, rooms >>

\* POST /message: body('message').trim().isLength({min: 1, max: 1000})
PostMessage(sessionId, userId, raw) ==
    LET message == trim(raw) IN
    /\ sessionId # "" /\ userId # ""
    /\ Len(message) >= 1 /\ Len(message) <= messageMaxlength
    /\ Handle("POST /message", sessionId, userId, Str(message))

\* socket.on('send-message'): if (!sessionId || !userId || !message) return
SendMessage(sessionId, userId, message) ==
    /\ sessionId # "" /\ userId # "" /\ ~Falsy(message)
    /\ Handle("send-message", sessionId, userId, message)

greetingResponse ==
    "Hello! I'm your interior design assistant. I'm here to help you plan your perfect space! What type of project are you thinking about? (residential, commercial, or renovation?)"

\* the document POST /session creates
GreetingMessage(sessionId, userId, initialMessage) ==
    ChatMessage(sessionId, userId,
                Str(IF initialMessage # "" THEN initialMessage
                    ELSE "Hello! I'm here to help with your interior design project."),
                greetingResponse, "bot", "greeting", confidenceMax, InitialContext)

\* POST /session: the session id is new, so the session has no document yet
CreateSession(sessionId, userId, initialMessage) ==
    LET greetingMessage == GreetingMessage(sessionId, userId, initialMessage)
    IN  /\ lastMessage[sessionId] = << >>
        /\ userId # ""
        /\ Validates(greetingMessage)
        /\ lastMessage' = Saved(lastMessage, greetingMessage)
        /\ last' = [op |-> "POST /session", sessionId |-> sessionId,
                    saved |-> << preSave(greetingMessage) >>, reply |-> << "201" >>]
        /\ script' = [script EXCEPT ![sessionId] = 0]
        /\ UNCHANGED << calls, activeSessions, rooms >>

Init ==
    /\ lastMessage = [sessionId \in Sessions |-> << >>]
    /\ last = [op |-> "none"]
    /\ script = [sessionId \in Sessions |-> 0]
    /\ calls = << >>
    /\ activeSessions = << >>
    /\ rooms = << >>

Next ==
    \/ \E sessionId \in Sessions, userId \in Users, raw \in Messages :
           PostMessage(sessionId, userId, raw)
    \/ \E sessionId \in Sessions, userId \in Users, message \in SocketMessages :
           SendMessage(sessionId, userId, message)
    \/ \E sessionId \in Sessions, userId \in Users, initialMessage \in {"", "hi"} :
           CreateSession(sessionId, userId, initialMessage)

Spec == Init /\ [][Next]_vars

\* the conversation driven over POST /message with the design style keys as messages
NextStyles ==
    \E sessionId \in Sessions, userId \in Users, raw \in StyleMessages :
        PostMessage(sessionId, userId, raw)

SpecStyles == Init /\ [][NextStyles]_vars

---------------------------------------------------------------------------
(* Two conversations driven in lockstep: each value is handed to a handler *)
(* for conversation a and to a handler for conversation b, and the two     *)
(* requests are recorded side by side.                                     *)

Transports == { "POST /message", "send-message" }

\* the guard of the handler on the value it finds as message: isLength({min: 1,
\* max: 1000}) on the trimmed String of the value, or !message
Accepts(op, value) ==
    IF op = "POST /message"
    THEN Len(trim(value.val)) >= 1 /\ Len(trim(value.val)) <= messageMaxlength
    ELSE ~Falsy(value)

\* the message the handler passes on: the sanitizer trim() leaves the trimmed String
\* of the value in req.body, the socket handler takes data.message as it is
Received(op, value) == IF op = "POST /message" THEN Str(trim(value.val)) ELSE value

Lockstep(opA, a, opB, b, userId, value) ==
    /\ userId # ""
    /\ Accepts(opA, value) /\ Accepts(opB, value)
    /\ \E first \in { Exchange(lastMessage, opA, a, userId, Received(opA, value)) } :
       \E second \in { Exchange(first.db, opB, b, userId, Received(opB, value)) } :
           /\ lastMessage' = second.db
           /\ last' = [op |-> "lockstep", a |-> first.request, b |-> second.request]
    /\ UNCHANGED << script, calls, activeSessions, rooms >>

\* conversation fresh has no document, conversation initialized has the one document
\* that carries the initial context
InitFresh ==
    /\ lastMessage =
           Saved([sessionId \in {"fresh", "initialized"} |-> << >>],
                 GreetingMessage("initialized", "u1", ""))
    /\ last = [op |-> "none"]
    /\ script = [sessionId \in Sessions |-> 0]
    /\ calls = << >>
    /\ activeSessions = << >>
    /\ rooms = << >>

NextFresh ==
    \E op \in Transports, userId \in Users, value \in SocketMessages :
        Lockstep(op, "fresh", op, "initialized", userId, value)

SpecFresh == InitFresh /\ [][NextFresh]_vars

\* the values sent over both transports: the socket values, and a text with blanks
\* around it
TransportValues == SocketMessages \cup { Str(" my name is John ") }

\* conversation http is driven over POST /message, conversation socket over
\* send-message, from the same state and with the same values
InitTransports ==
    /\ lastMessage = [sessionId \in {"http", "socket"} |-> << >>]
    /\ last = [op |-> "none"]
    /\ script = [sessionId \in Sessions |-> 0]
    /\ calls = << >>
    /\ activeSessions = << >>
    /\ rooms = << >>

\* the two handlers are compared as long as they start from the same stored context
NextTransports ==
    /\ getConversationContext(lastMessage, "http")
         = getConversationContext(lastMessage, "socket")
    /\ \E userId \in Users, value \in TransportValues :
           Lockstep("POST /message", "http", "send-message", "socket", userId, value)

SpecTransports == InitTransports /\ [][NextTransports]_vars

---------------------------------------------------------------------------
(* A message handled while the store cannot be reached: every findOne and  *)
(* every save of the request rejects.                                      *)

\* what the loads of such a request get: findOne rejects, and the catch of
\* getConversationContext returns the same initial context as for no document
Unreachable(db) == [sessionId \in DOMAIN db |-> << >>]

\* the handler during the outage: processMessage returns, userMessage.save() rejects
\* and the handler ends in its catch
HandleUnavailable(op, sessionId, userId, value) ==
    /\ sessionId # "" /\ userId # "" /\ Accepts(op, value)
    /\ \E message \in { Received(op, value) } :
       \E botResponse \in { processMessage(Unreachable(lastMessage), message, sessionId) } :
           last' = [op |-> op,
                    sessionId |-> sessionId,
                    message |-> message,
                    threw |-> Throws(message),
                    found |-> FALSE,
                    outage |-> TRUE,
                    context |-> InitialContext,
                    currentStep |-> "greeting",
                    botResponse |-> botResponse,
                    saved |-> << >>,
                    reply |-> Reply(op, botResponse, FALSE)]
    /\ script' = [script EXCEPT ![sessionId] = 0]
    /\ UNCHANGED << lastMessage, calls, activeSessions, rooms >>

\* the values that arrive during an outage
OutageValues == { Str("hi"), Str("kitchen"), Num("42") }

NextOutage ==
    \/ \E sessionId \in Sessions, userId \in Users, raw \in Messages :
           PostMessage(sessionId, userId, raw)
    \/ \E op \in Transports, sessionId \in Sessions, userId \in Users,
          value \in OutageValues :
           HandleUnavailable(op, sessionId, userId, value)

SpecOutage == Init /\ [][NextOutage]_vars

---------------------------------------------------------------------------
(* Two requests POST /message in flight for one conversation.  A handler   *)
(* is suspended where it awaits the store: at the findOne of               *)
(* getConversationContext in processMessage, at the findOne of             *)
(* getConversationContext in updateContext, and at the two saves.  What    *)
(* runs between two awaits is one step.                                    *)

RaceCalls == { "c1", "c2" }

\* the messages that led the conversation to where the two requests find it
RacePrefix ==
    << "hi", "residential", "kitchen", "modern", "my budget is 30000", "3-6 months",
       "200 sq ft" >>

RaceMessages ==
    { "hi", "residential", "kitchen", "modern", "3-6 months", "my name is John",
      "john@example.com" }

\* the collection after the messages were handled one after another
RECURSIVE StoredAfter(_)
StoredAfter(messages) ==
    IF messages = << >> THEN [sessionId \in Sessions |-> << >>]
    ELSE CHOOSE after \in
             { Exchange(db, "POST /message", "s1", "u1", Str(messages[Len(messages)])).db :
                   db \in { StoredAfter(SubSeq(messages, 1, Len(messages) - 1)) } } : TRUE

InitRace ==
    /\ \E n \in 0..Len(RacePrefix) : lastMessage = StoredAfter(SubSeq(RacePrefix, 1, n))
    /\ last = [op |-> "none"]
    /\ script = [sessionId \in Sessions |-> 0]
    /\ calls = [c \in RaceCalls |-> [pc |-> "idle"]]
    /\ activeSessions = << >>
    /\ rooms = << >>

\* the request arrives and passes validation; the first findOne answers, and the
\* handler runs analyzeIntent and generateResponse up to the findOne of updateContext
Load(c, sessionId, userId, raw) ==
    /\ calls[c].pc = "idle"
    /\ sessionId # "" /\ userId # ""
    /\ Len(trim(raw)) >= 1 /\ Len(trim(raw)) <= messageMaxlength
    /\ \E l \in { Locals(lastMessage, trim(raw), sessionId) } :
           calls' = [calls EXCEPT ![c] =
                        [pc |-> "update",
                         sessionId |-> sessionId,
                         userId |-> userId,
                         message |-> Str(trim(raw)),
                         context |-> l.context,
                         currentStep |-> l.currentStep,
                         intent |-> l.intent,
                         response |-> l.response,
                         alone |-> processMessage(lastMessage, Str(trim(raw)), sessionId)]]
    /\ UNCHANGED << lastMessage, last, script, activeSessions, rooms >>

\* the findOne of updateContext answers; processMessage returns and the handler
\* calls userMessage.save()
Update(c) ==
    /\ calls[c].pc = "update"
    /\ \E updatedContext \in
           { updateContext(lastMessage, calls[c].sessionId, calls[c].currentStep,
                           calls[c].intent, calls[c].message.val, calls[c].response) } :
           calls' = [calls EXCEPT ![c] =
                        Merge(calls[c],
                              [pc |-> "saveUser",
                               botResponse |->
                                   Returns(Merge(calls[c],
                                                 [updatedContext |-> updatedContext]))])]
    /\ UNCHANGED << lastMessage, last, script, activeSessions, rooms >>

\* the user document is validated and stored; the handler calls botMessage.save()
SaveUser(c) ==
    /\ calls[c].pc = "saveUser"
    /\ \E userMessage \in { UserMessage(calls[c].sessionId, calls[c].userId,
                                          calls[c].message, calls[c].botResponse) } :
           IF Validates(userMessage)
           THEN /\ lastMessage' = Saved(lastMessage, userMessage)
                /\ last' = [op |-> "save", call |-> c, saved |-> preSave(userMessage)]
                /\ calls' = [calls EXCEPT ![c].pc = "saveBot"]
           ELSE /\ calls' = [calls EXCEPT ![c] =
                                Merge(calls[c], [pc |-> "done", reply |-> << "500" >>])]
                /\ UNCHANGED << lastMessage, last >>
    /\ UNCHANGED << script, activeSessions, rooms >>

\* the bot document is validated and stored, and the handler answers
SaveBot(c) ==
    /\ calls[c].pc = "saveBot"
    /\ \E botMessage \in { BotMessage(calls[c].sessionId, calls[c].userId,
                                        calls[c].botResponse) } :
           IF Validates(botMessage)
           THEN /\ lastMessage' = Saved(lastMessage, botMessage)
                /\ last' = [op |-> "save", call |-> c, saved |-> preSave(botMessage)]
                /\ calls' = [calls EXCEPT ![c] =
                                Merge(calls[c], [pc |-> "done", reply |-> << "200" >>])]
           ELSE /\ calls' = [calls EXCEPT ![c] =
                                Merge(calls[c], [pc |-> "done", reply |-> << "500" >>])]
                /\ UNCHANGED << lastMessage, last >>
    /\ UNCHANGED << script, activeSessions, rooms >>

NextRace ==
    \/ \E c \in RaceCalls, sessionId \in Sessions, userId \in Users, raw \in RaceMessages :
           Load(c, sessionId, userId, raw)
    \/ \E c \in RaceCalls : Update(c)
    \/ \E c \in RaceCalls : SaveUser(c)
    \/ \E c \in RaceCalls : SaveBot(c)

SpecRace == InitRace /\ [][NextRace]_vars

---------------------------------------------------------------------------
(* update-design-preferences beside POST /message: updateDesignPreferences *)
(* awaits getConversationContext, then findOne, then save, and what runs   *)
(* between two awaits is one step                                          *)

MessageCalls == { "p1", "p2" }
PreferenceCalls == { "u" }

PreferencesPrefix == << "hi", "residential" >>

PreferencesMessages == { "hi", "residential", "kitchen" }

\* data.preferences of update-design-preferences
PreferenceValues ==
    { [designStyle |-> "modern"], [budget |-> "10k-25k", timeline |-> "3-6-months"] }

InitPreferences ==
    /\ \E n \in 0..Len(PreferencesPrefix) :
           lastMessage = StoredAfter(SubSeq(PreferencesPrefix, 1, n))
    /\ last = [op |-> "none"]
    /\ script = [sessionId \in Sessions |-> 0]
    /\ calls = [c \in MessageCalls \cup PreferenceCalls |-> [pc |-> "idle"]]
    /\ activeSessions = << >>
    /\ rooms = << >>

\* the event arrives; the findOne of getConversationContext answers and the
\* preferences are spread over the ones of the loaded context
LoadPreferences(c, sessionId, preferences) ==
    /\ calls[c].pc = "idle"
    /\ \E context \in { getConversationContext(lastMessage, sessionId) } :
           calls' = [calls EXCEPT ![c] =
                        [pc |-> "find",
                         sessionId |-> sessionId,
                         preferences |-> preferences,
                         loaded |-> context,
                         context |-> [context EXCEPT !.userPreferences =
                                         Merge(context.userPreferences, preferences)]]]
    /\ UNCHANGED << lastMessage, last, script, activeSessions, rooms >>

\* the second findOne answers: without a document the context is returned and the
\* handler emits preferences-updated, with one the document is given the context
FindLatest(c) ==
    /\ calls[c].pc = "find"
    /\ calls' = [calls EXCEPT ![c] =
                    IF lastMessage[calls[c].sessionId] = << >>
                    THEN Merge(calls[c], [pc |-> "done", written |-> FALSE,
                                          reply |-> << "preferences-updated" >>])
                    ELSE Merge(calls[c],
                               [pc |-> "save",
                                found |-> lastMessage[calls[c].sessionId][1],
                                lastMessage |->
                                    [lastMessage[calls[c].sessionId][1] EXCEPT
                                        !.context = CastContext(calls[c].context)]])]
    /\ UNCHANGED << lastMessage, last, script, activeSessions, rooms >>

\* lastMessage.save(): the document found is written; it is the newest one still
\* unless a document was stored since (documents are told apart by their content)
SavePreferences(c) ==
    /\ calls[c].pc = "save"
    /\ IF lastMessage[calls[c].sessionId] = << calls[c].found >>
       THEN /\ lastMessage' = Saved(lastMessage, calls[c].lastMessage)
            /\ last' = [op |-> "save", call |-> c, saved |-> preSave(calls[c].lastMessage)]
       ELSE UNCHANGED << lastMessage, last >>
    /\ calls' = [calls EXCEPT ![c] =
                    Merge(calls[c], [pc |-> "done", written |-> TRUE,
                                     reply |-> << "preferences-updated" >>])]
    /\ UNCHANGED << script, activeSessions, rooms >>

NextPreferences ==
    \/ \E c \in MessageCalls, sessionId \in Sessions, userId \in Users,
            raw \in PreferencesMessages :
           Load(c, sessionId, userId, raw)
    \/ \E c \in MessageCalls : Update(c)
    \/ \E c \in MessageCalls : SaveUser(c)
    \/ \E c \in MessageCalls : SaveBot(c)
    \/ \E c \in PreferenceCalls, sessionId \in Sessions, preferences \in PreferenceValues :
           LoadPreferences(c, sessionId, preferences)
    \/ \E c \in PreferenceCalls : FindLatest(c)
    \/ \E c \in PreferenceCalls : SavePreferences(c)

SpecPreferences == InitPreferences /\ [][NextPreferences]_vars

---------------------------------------------------------------------------
(* The session tracking of socketSetup.  rooms holds the session rooms     *)
(* only, not the room a socket has under its own id; a socket id that has  *)
(* disconnected stands for a new connection when it connects again.  The   *)
(* conversation history join-session loads is not modelled.                *)

SocketIds == { "k1", "k2" }

\* data.sessionId of join-session and leave-session
RoomIds == { "s1", "s2" }

\* map.delete(key)
Delete(map, key) == Restrict(map, (DOMAIN map) \ {key})

InitSockets ==
    /\ lastMessage = [sessionId \in Sessions |-> << >>]
    /\ last = [op |-> "none"]
    /\ script = [sessionId \in Sessions |-> 0]
    /\ calls = << >>
    /\ activeSessions = << >>
    /\ rooms = << >>

\* io.on('connection')
Connection(socket) ==
    /\ socket \notin DOMAIN rooms
    /\ rooms' = Put(rooms, socket, {})
    /\ last' = [op |-> "connection", socket |-> socket, reply |-> << >>]
    /\ UNCHANGED << lastMessage, script, calls, activeSessions >>

\* socket.on('join-session')
JoinSession(socket, sessionId, userId) ==
    /\ socket \in DOMAIN rooms
    /\ IF sessionId = "" \/ userId = ""
       THEN /\ last' = [op |-> "join-session", socket |-> socket, sessionId |-> sessionId,
                        reply |-> << "error" >>]
            /\ UNCHANGED << activeSessions, rooms >>
       ELSE /\ rooms' = [rooms EXCEPT ![socket] = @ \cup {sessionId}]
            /\ activeSessions' = Put(activeSessions, socket,
                                     [sessionId |-> sessionId, userId |-> userId])
            /\ last' = [op |-> "join-session", socket |-> socket, sessionId |-> sessionId,
                        reply |-> << "session-joined" >>]
    /\ UNCHANGED << lastMessage, script, calls >>

\* socket.on('leave-session')
LeaveSession(socket, sessionId) ==
    /\ socket \in DOMAIN rooms
    /\ rooms' = [rooms EXCEPT ![socket] = @ \ {sessionId}]
    /\ activeSessions' = Delete(activeSessions, socket)
    /\ last' = [op |-> "leave-session", socket |-> socket, sessionId |-> sessionId,
                reply |-> << "session-left" >>]
    /\ UNCHANGED << lastMessage, script, calls >>

\* socket.on('disconnect'): the socket has left all its rooms
Disconnect(socket) ==
    /\ socket \in DOMAIN rooms
    /\ rooms' = Delete(rooms, socket)
    /\ activeSessions' = IF Has(activeSessions, socket) THEN Delete(activeSessions, socket)
                         ELSE activeSessions
    /\ last' = [op |-> "disconnect", socket |-> socket, reply |-> << >>]
    /\ UNCHANGED << lastMessage, script, calls >>

NextSockets ==
    \/ \E socket \in SocketIds : Connection(socket)
    \/ \E socket \in SocketIds, sessionId \in RoomIds \cup {""}, userId \in Users \cup {""} :
           JoinSession(socket, sessionId, userId)
    \/ \E socket \in SocketIds, sessionId \in RoomIds : LeaveSession(socket, sessionId)
    \/ \E socket \in SocketIds : Disconnect(socket)

SpecSockets == InitSockets /\ [][NextSockets]_vars

---------------------------------------------------------------------------
(* analyzeIntent on its own: the specification draws a message and a step, *)
(* and its one action applies the matcher to them.                         *)

\* the integers the budget messages are written with
BudgetNumbers ==
    { 0, 5, 10, 9999, 10000, 10001, 24999, 25000, 30000, 49999, 50000, 99999, 100000, 250000 }

BudgetPrefixes == { "", "my budget is ", "under " }
BudgetSuffixes == { "", " dollars", "k", "k-25k" }

\* a message at step budget whose first integer is n
NumberInputs ==
    { [message |-> prefix \o ToString(n) \o suffix, currentStep |-> "budget", n |-> n] :
          prefix \in BudgetPrefixes, n \in BudgetNumbers, suffix \in BudgetSuffixes }

\* a message equal to a key or to a label of table, at the step that asks for it
BandInputs(table, step) ==
    { [message |-> table[i][j], currentStep |-> step, key |-> table[i][1]] :
          i \in 1..Len(table), j \in {1, 2} }

\* messages that name which keywords and patterns they hold
RuleTexts ==
    { [message |-> "a home office", has |-> {"residential", "commercial"}],
      [message |-> "commercial house", has |-> {"residential", "commercial"}],
      [message |-> "an office to remodel", has |-> {"commercial", "renovation"}],
      [message |-> "my name is John, john@example.com, 555-123-4567",
       has |-> {"email", "phone", "name"}],
      [message |-> "call me at 555-123-4567, the name is John", has |-> {"phone", "name"}],
      [message |-> "my name is john@example.com", has |-> {"email", "name"}],
      [message |-> "555-123-4567", has |-> {"phone"}],
      [message |-> "my name is John", has |-> {"name"}],
      [message |-> "zzz", has |-> {}] }

\* each of them at each step
RuleInputs ==
    { Merge(text, [currentStep |-> CONVERSATION_STEPS[i]]) :
          text \in RuleTexts, i \in 1..Len(CONVERSATION_STEPS) }

IntentInputs ==
    NumberInputs \cup BandInputs(BUDGET_RANGES, "budget")
                 \cup BandInputs(TIMELINE_OPTIONS, "timeline")
                 \cup RuleInputs

InitIntent ==
    /\ lastMessage = [sessionId \in Sessions |-> << >>]
    /\ script = [sessionId \in Sessions |-> 0]
    /\ \E input \in IntentInputs : last = Merge([op |-> "input"], input)
    /\ calls = << >>
    /\ activeSessions = << >>
    /\ rooms = << >>

AnalyzeIntent ==
    /\ last.op = "input"
    /\ last' = Merge(last, [op |-> "analyzeIntent",
                            intent |-> analyzeIntent(last.message, last.currentStep)])
    /\ UNCHANGED << lastMessage, script, calls, activeSessions, rooms >>

SpecIntent == InitIntent /\ [][AnalyzeIntent]_vars

---------------------------------------------------------------------------
(* Properties                                                              *)

\* context.currentStep || CONVERSATION_STEPS.GREETING
StepOf(context) == IF Truthy(context, "currentStep") THEN context.currentStep ELSE "greeting"

\* the context of the newest stored document of the session
Stored(sessionId) == getConversationContext(lastMessage, sessionId)

\* the last request was a chat message, over either transport
HandledMessage == last.op \in { "POST /message", "send-message" }

\* ... and processMessage ran to its return statement
Processed == HandledMessage /\ ~last.threw

Returned == last.botResponse.context

StepIndex(step) == CHOOSE i \in 1..Len(CONVERSATION_STEPS) : CONVERSATION_STEPS[i] = step

Successor(step) ==
    IF step = "complete" THEN "complete" ELSE CONVERSATION_STEPS[StepIndex(step) + 1]

\* the collectedData fields a step asks for
FieldsOf(step) ==
    CASE step = "project_type" -> {"projectType"}
      [] step = "room_type" -> {"roomType"}
      [] step = "design_style" -> {"designStyle"}
      [] step = "budget" -> {"budget"}
      [] step = "timeline" -> {"timeline"}
      [] step = "room_size" -> {"roomSize"}
      [] step = "contact_info" -> {"name", "email"}
      [] step = "additional_notes" -> {"additionalNotes"}
      [] OTHER -> {}

\* C1: the ten messages of the terminal scenario, sent in order to a session without
\* documents, take currentStep through the ten steps in order; the last outcome has
\* isComplete = true and its summary names the six collected values
C1_TerminalScenario ==
    \A sessionId \in Sessions :
        (script[sessionId] >= 1 /\ last.sessionId = sessionId) =>
            /\ StepOf(Stored(sessionId)) = CONVERSATION_STEPS[script[sessionId] + 1]
               \/ script[sessionId] = Len(Script)
            /\ script[sessionId] = Len(Script) =>
                  /\ StepOf(Stored(sessionId)) = "complete"
                  /\ last.botResponse.isComplete
                  /\ \A text \in { "residential", "kitchen", "modern", "$10,000 - $25,000",
                                    "3-6 months", "200 sq ft" } :
                         includes(last.botResponse.response, text)

\* C2 as stated: an unknown intent never advances currentStep and never writes a
\* collectedData field, at any step
C2_UnknownNeverAdvances ==
    (Processed /\ last.intent = UnknownIntent) =>
        /\ StepOf(Returned) = last.currentStep
        /\ Returned.collectedData = last.context.collectedData

\* the steps at which an unknown intent asks the same question again
RepromptSteps(context) ==
    { "project_type", "design_style", "budget", "timeline" }
      \cup (IF Truthy(context.collectedData, "name") /\ Truthy(context.collectedData, "email")
            THEN {} ELSE { "contact_info" })

\* C2 amended: at the steps project_type, design_style, budget and timeline, and at
\* contact_info unless name and email are both recorded already, an unknown intent
\* leaves currentStep and collectedData as they were loaded
C2_UnknownReprompts ==
    (Processed /\ last.intent = UnknownIntent
               /\ last.currentStep \in RepromptSteps(last.context)) =>
        /\ Returned.currentStep = last.currentStep
        /\ Returned.collectedData = last.context.collectedData

C2_Witness ==
    /\ Processed /\ last.intent = UnknownIntent
    /\ last.currentStep = "contact_info"
    /\ Has(last.context.collectedData, "budget")

GatedSteps ==
    { "project_type", "room_type", "design_style", "budget", "timeline", "contact_info" }

\* C3: at the six gated steps an intent with confidence <= 0.6 commits nothing: the
\* returned context and the context stored afterwards have exactly the collectedData
\* that was loaded, whatever the handler wrote into its working copy
C3_ConfidenceGate ==
    (Processed /\ last.currentStep \in GatedSteps
               /\ last.intent.confidence <= confidenceThreshold) =>
        /\ Returned.collectedData = last.context.collectedData
        /\ Stored(last.sessionId).collectedData = last.context.collectedData

\* the handler of room_type wrote roomType = "unknown" into its copy; it was not committed
C3_Witness ==
    /\ Processed /\ last.currentStep = "room_type"
    /\ last.intent.confidence <= confidenceThreshold
    /\ last.working.collectedData # last.context.collectedData
    /\ Has(last.context.collectedData, "projectType")
    /\ last.saved # << >>

\* C4: over the handled messages, also those that end in the error outcome, a field
\* that is set in the stored context stays set, and changes only by an answer
\* processed at the step the field belongs to
C4_AppendOnly ==
    HandledMessage =>
        \A field \in DOMAIN last.context.collectedData :
            /\ Has(Stored(last.sessionId).collectedData, field)
            /\ Stored(last.sessionId).collectedData[field] # last.context.collectedData[field]
                  => field \in FieldsOf(last.currentStep)

\* C5: once the stored step is complete, a later message leaves it complete
C5_CompleteIsTerminal ==
    (HandledMessage /\ last.currentStep = "complete") =>
        StepOf(Stored(last.sessionId)) = "complete"

\* C6: a message handled at a step other than complete leaves the stored step where
\* it was or moves it to the next step of CONVERSATION_STEPS
C6_FixedStepOrder ==
    (HandledMessage /\ last.currentStep # "complete") =>
        StepOf(Stored(last.sessionId)) \in { last.currentStep, Successor(last.currentStep) }

\* C7: when a message moves the conversation from contact_info to additional_notes,
\* the stored context has both name and email
C7_NameAndEmailBeforeNotes ==
    (HandledMessage /\ last.currentStep = "contact_info"
                    /\ StepOf(Stored(last.sessionId)) = "additional_notes") =>
        /\ Truthy(Stored(last.sessionId).collectedData, "name")
        /\ Truthy(Stored(last.sessionId).collectedData, "email")

\* C8: room_size and additional_notes record the raw message, whatever the intent
C8_RawTextRecorded ==
    /\ (Processed /\ last.currentStep = "room_size") =>
          /\ Has(Returned.collectedData, "roomSize")
          /\ Returned.collectedData.roomSize = last.message.val
          /\ Returned.currentStep = "contact_info"
    /\ (Processed /\ last.currentStep = "additional_notes") =>
          /\ Has(Returned.collectedData, "additionalNotes")
          /\ Returned.collectedData.additionalNotes = last.message.val
          /\ Returned.currentStep = "complete"
          /\ last.botResponse.isComplete

SummaryLabels ==
    { "Project Type", "Room Type", "Design Style", "Budget", "Timeline", "Room Size" }

\* C9: the summary of additional_notes prints the six collected values, none of them
\* as undefined
C9_SummaryComplete ==
    (Processed /\ last.currentStep = "additional_notes") =>
        \A label \in SummaryLabels :
            ~includes(last.botResponse.response, label \o ": undefined")

\* C10: a message equal to a key k of DESIGN_STYLES, handled at design_style, gives
\* intent k, designStyle = k in the returned context, currentStep = budget, and a
\* response that contains the description DESIGN_STYLES[k]
C10_StyleRoundTrip ==
    (Processed /\ last.currentStep = "design_style"
               /\ In(last.message.val, DESIGN_STYLES)) =>
        /\ last.botResponse.intent = last.message.val
        /\ Has(Returned.collectedData, "designStyle")
        /\ Returned.collectedData.designStyle = last.message.val
        /\ Returned.currentStep = "budget"
        /\ includes(last.botResponse.response, Lookup(DESIGN_STYLES, last.message.val))
        /\ last.message.val = "modern" =>
              includes(last.botResponse.response,
                       "Clean lines, minimal decoration, and a focus on function")

C10_Witness ==
    /\ Processed /\ last.currentStep = "design_style"
    /\ last.message.val = "mid-century"
    /\ Stored(last.sessionId).collectedData = [projectType |-> "residential",
                                                designStyle |-> "mid-century"]

\* the band rule of analyzeIntent finds none of the bands of table in the message
NoBandFound(message, table, patterns) ==
    FirstBand(toLowerCase(message), table, patterns, 1) = ""

\* the band of the integer n, by the limits the claim gives
BandOf(n) ==
    CASE n < 10000 -> "under-10k"
      [] 10000 <= n /\ n < 25000 -> "10k-25k"
      [] 25000 <= n /\ n < 50000 -> "25k-50k"
      [] 50000 <= n /\ n < 100000 -> "50k-100k"
      [] n >= 100000 -> "over-100k"

\* C11: at step budget a message in which the band rule finds no key and no label,
\* and whose first integer is n, gives the band of n with confidence 0.7: under-10k
\* below 10000, 10k-25k from 10000, 25k-50k from 25000, 50k-100k from 50000 and
\* over-100k from 100000; "my budget is 30000" gives 25k-50k
C11_BudgetFallback ==
    (last.op = "analyzeIntent" /\ last.currentStep = "budget" /\ Has(last, "n")
                               /\ NoBandFound(last.message, BUDGET_RANGES, BudgetPatterns)) =>
        /\ last.intent = Intent(BandOf(last.n), 7)
        /\ last.message = "my budget is 30000" => last.intent.type = "25k-50k"

\* the limit 25000 belongs to the upper band
C11_Witness ==
    /\ last.op = "analyzeIntent" /\ last.currentStep = "budget"
    /\ last.message = "my budget is 25000"
    /\ last.intent = Intent("25k-50k", 7)

\* C12: a message equal to a band key, or to a band label, gives that key with
\* confidence 0.8
C12_BandKeysMatch ==
    (last.op = "analyzeIntent" /\ Has(last, "key")) => last.intent = Intent(last.key, 8)

\* C13: a conversation without a document and a conversation whose one document
\* carries the initial context, sent the same messages, get the same outcome of
\* processMessage for each message (response, intent, confidence, context) from the
\* same step, and have the same stored context afterwards
C13_FreshIsInitialized ==
    last.op = "lockstep" =>
        /\ last.a.botResponse = last.b.botResponse
        /\ last.a.currentStep = last.b.currentStep
        /\ last.a.context = last.b.context
        /\ getConversationContext(lastMessage, "fresh")
             = getConversationContext(lastMessage, "initialized")

\* the first message: one conversation has no document, the other the initial one
C13_Witness ==
    /\ last.op = "lockstep"
    /\ ~last.a.found /\ last.b.found
    /\ last.b.context = InitialContext
    /\ last.a.botResponse.context.currentStep = "project_type"
    /\ last.a.saved # << >>

\* C14: processMessage gives every message it is handed an outcome, and when the
\* processing fails inside (the matcher throws) the outcome is the fixed apology with
\* intent "error", confidence 0, an empty context and isComplete = false
C14_ErrorOutcome ==
    HandledMessage =>
        /\ DOMAIN last.botResponse \in
              { {"response", "intent", "confidence", "context", "isComplete"},
                {"response", "intent", "confidence", "context", "isComplete", "nextSteps"} }
        /\ last.threw =>
              last.botResponse =
                  [response |-> "I'm sorry, I'm having trouble processing your message. Please try again or contact our team directly.",
                   intent |-> "error",
                   confidence |-> 0,
                   context |-> EmptyObject,
                   isComplete |-> FALSE]

\* the matcher threw in a conversation that had already recorded a project type
C14_Witness ==
    /\ HandledMessage /\ last.threw
    /\ last.message = Num("42")
    /\ Has(last.context.collectedData, "projectType")

\* C15: a message handled while the store is unavailable is processed from the
\* initial context (step greeting, no collected data), and the caller is answered
\* with that outcome, not with an error
C15_OutageStartsFresh ==
    (HandledMessage /\ Has(last, "outage") /\ ~last.threw) =>
        /\ last.currentStep = "greeting"
        /\ last.botResponse.context =
              [currentStep |-> "project_type", collectedData |-> EmptyObject,
               userPreferences |-> EmptyObject]
        /\ last.reply \notin { << "500" >>, << "error" >> }

\* C16: a handled message stores two documents, the user document and then the bot
\* document, both with the context processMessage returned, which is then the
\* context of the newest document of the conversation
C16_TwoRecords ==
    HandledMessage =>
        /\ Len(last.saved) = 2
        /\ last.saved[1].messageType = "user"
        /\ last.saved[2].messageType = "bot"
        /\ last.saved[1].context = last.botResponse.context
        /\ last.saved[2].context = last.botResponse.context
        /\ Stored(last.sessionId) = last.botResponse.context

\* C17: a handled message whose outcome has isComplete = true is followed by the
\* event conversation-complete, over either transport
C17_CompletionNotified ==
    (HandledMessage /\ last.botResponse.isComplete) =>
        \E i \in 1..Len(last.reply) : last.reply[i] = "conversation-complete"

\* C20: the collectedData the handler leaves in the context it was given is the
\* collectedData of the context processMessage returns
C20_WritesAgree ==
    Processed => last.working.collectedData = Returned.collectedData

\* the context, intent and confidence of the documents a request stored
Persisted(request) ==
    [i \in 1..Len(request.saved) |->
        [context |-> request.saved[i].context,
         intent |-> request.saved[i].intent,
         confidence |-> request.saved[i].confidence]]

\* C18: from the same stored state and for the same message, the handler of POST
\* /message and the handler of send-message get the same outcome of processMessage
\* and store documents with the same context, intent and confidence
C18_TransportsAgree ==
    (last.op = "lockstep" /\ last.a.context = last.b.context) =>
        /\ last.a.botResponse = last.b.botResponse
        /\ Persisted(last.a) = Persisted(last.b)

\* both requests have answered, and their first loads found the same context
BothLoadedTheSame ==
    /\ \A c \in RaceCalls : calls[c].pc = "done"
    /\ \A c, d \in RaceCalls : calls[c].context = calls[d].context

\* C19: when two overlapping calls loaded the same prior step, then after both have
\* stored their records the newest stored context is the one the call that stored
\* last computed from that prior step on its own: the other call's field and step
\* advancement are not in it
C19_LastWriteWins ==
    BothLoadedTheSame =>
        /\ Stored(calls[last.call].sessionId).currentStep
             = calls[last.call].alone.context.currentStep
        /\ Stored(calls[last.call].sessionId).collectedData
             = Restrict(calls[last.call].alone.context.collectedData, collectedDataPaths)



---------------------------------------------------------------------------
(* The store round trip, the steps with a table of values, the rules of    *)
(* analyzeIntent                                                           *)

\* the fields of CollectedData
CollectedDataFields ==
    { "projectType", "roomType", "designStyle", "budget", "timeline", "roomSize",
      "name", "email", "phone", "additionalNotes" }

\* C21: every field of the collected data that is non-empty in the context saved with
\* a document has the same value in the context the next call loads
C21_StoreRoundTrip ==
    (Processed /\ last.saved # << >>) =>
        \A field \in CollectedDataFields :
            Truthy(Returned.collectedData, field) =>
                /\ Has(Stored(last.sessionId).collectedData, field)
                /\ Stored(last.sessionId).collectedData[field]
                     = Returned.collectedData[field]

\* the steps that take their value from a table, and the table of each
TableSteps == { "project_type", "design_style", "budget", "timeline" }

ValuesOf(step) ==
    CASE step = "project_type" -> { "residential", "commercial", "renovation" }
      [] step = "design_style" -> Keys(DESIGN_STYLES)
      [] step = "budget" -> Keys(BUDGET_RANGES)
      [] step = "timeline" -> Keys(TIMELINE_OPTIONS)
      [] OTHER -> {}

\* C22: at project_type, design_style, budget and timeline a processed message takes
\* currentStep to the next step exactly when its intent is a value of the step; then the
\* field of the step holds the intent kind in the returned context, and otherwise the
\* step and the collected data are the ones loaded
C22_AdvancesIffValid ==
    (Processed /\ last.currentStep \in TableSteps) =>
        IF last.intent.type \in ValuesOf(last.currentStep)
        THEN /\ Returned.currentStep = Successor(last.currentStep)
             /\ \A field \in FieldsOf(last.currentStep) :
                    /\ Has(Returned.collectedData, field)
                    /\ Returned.collectedData[field] = last.intent.type
        ELSE /\ Returned.currentStep = last.currentStep
             /\ Returned.collectedData = last.context.collectedData

\* a budget given as a number advances the step and records the band
C22_Witness ==
    /\ Processed
    /\ last.currentStep = "budget"
    /\ last.message = Str("my budget is 30000")
    /\ last.intent.confidence = 7
    /\ Returned.currentStep = "timeline"
    /\ Returned.collectedData.budget = "25k-50k"

\* C23: analyzeIntent answers with its first matching rule: at project_type a message
\* with a residential and a commercial keyword is residential, at contact_info an email
\* address wins over a phone number and over "name" and a phone number wins over
\* "name", and where no rule matches, as at room_size, additional_notes and complete,
\* the intent is unknown with confidence 0.3
C23_FirstRule ==
    (last.op = "analyzeIntent" /\ Has(last, "has")) =>
        /\ last.currentStep \in {"room_size", "additional_notes", "complete"} =>
               last.intent = [type |-> "unknown", confidence |-> 3]
        /\ last.message = "zzz" => last.intent = [type |-> "unknown", confidence |-> 3]
        /\ last.currentStep = "project_type" =>
               last.intent =
                   IF "residential" \in last.has
                   THEN [type |-> "residential", confidence |-> 8]
                   ELSE IF "commercial" \in last.has
                   THEN [type |-> "commercial", confidence |-> 8]
                   ELSE [type |-> "unknown", confidence |-> 3]
        /\ last.currentStep = "contact_info" =>
               IF "email" \in last.has
               THEN last.intent = [type |-> "email", confidence |-> 9,
                                   data |-> "john@example.com"]
               ELSE IF "phone" \in last.has
               THEN last.intent = [type |-> "phone", confidence |-> 9,
                                   data |-> "555-123-4567"]
               ELSE IF "name" \in last.has
               THEN last.intent = [type |-> "name", confidence |-> 7]
               ELSE last.intent = [type |-> "unknown", confidence |-> 3]

\* a message with an email address, a phone number and "name" at contact_info
C23_Witness ==
    /\ last.op = "analyzeIntent"
    /\ last.currentStep = "contact_info"
    /\ Has(last, "has") /\ last.has = {"email", "phone", "name"}
    /\ last.intent.type = "email"

---------------------------------------------------------------------------
(* Overlapping calls: the order of the stored steps, the values collected  *)

\* C24: even when processMessage calls overlap, the step of the newest stored record
\* is never an earlier step than the one stored before it, as long as the stored step
\* is not complete
C24_StepNeverBack ==
    [][\A sessionId \in Sessions :
           StepOf(Stored(sessionId)) # "complete" =>
               StepIndex(StepOf(getConversationContext(lastMessage', sessionId)))
                 >= StepIndex(StepOf(Stored(sessionId)))]_vars

\* the values a field of the collected data takes from a table or a list
ValidCollected(collectedData) ==
    /\ \A step \in TableSteps : \A field \in FieldsOf(step) :
           Has(collectedData, field) => collectedData[field] \in ValuesOf(step)
    /\ Has(collectedData, "roomType") =>
           collectedData.roomType
             \in { "living room", "bedroom", "kitchen", "bathroom", "dining room",
                   "office", "basement", "outdoor" }

\* C25: under any sequence or interleaving of calls, every context processMessage
\* returns and every stored context holds in projectType, roomType, designStyle, budget
\* and timeline only values of the field's own table or list
C25_ValuesValid ==
    /\ \A c \in DOMAIN calls :
           Has(calls[c], "botResponse") =>
               ValidCollected(calls[c].botResponse.context.collectedData)
    /\ (Processed /\ Has(Returned, "collectedData")) =>
           ValidCollected(Returned.collectedData)
    /\ \A sessionId \in Sessions : ValidCollected(Stored(sessionId).collectedData)

\* two calls that loaded the same context have both answered, one recorded a style
C25_Witness ==
    /\ BothLoadedTheSame
    /\ \E c \in RaceCalls :
           /\ calls[c].currentStep = "design_style"
           /\ Has(calls[c].botResponse.context.collectedData, "designStyle")
           /\ calls[c].botResponse.context.collectedData.designStyle = "modern"
           /\ Has(calls[c].botResponse.context.collectedData, "projectType")

---------------------------------------------------------------------------
(* The phone number, the first message of a created session, the two       *)
(* notions of completion                                                   *)

\* C26: processMessage never records a phone number: a message with a phone number at
\* contact_info has intent phone with confidence 0.9, leaves the collected data as
\* loaded, and keeps the step at contact_info with the question for the name, unless
\* name and email are both recorded already
C26_PhoneNotRecorded ==
    /\ \A sessionId \in Sessions : ~Has(Stored(sessionId).collectedData, "phone")
    /\ (Processed /\ last.currentStep = "contact_info" /\ last.intent.type = "phone") =>
           /\ last.intent.confidence = 9
           /\ ~Has(Returned.collectedData, "phone")
           /\ Returned.collectedData = last.context.collectedData
           /\ IF /\ Truthy(last.context.collectedData, "name")
                 /\ Truthy(last.context.collectedData, "email")
              THEN Returned.currentStep = "additional_notes"
              ELSE /\ Returned.currentStep = "contact_info"
                   /\ last.botResponse.response
                        = "I'd love to get your contact information! What's your name?"

\* a phone number sent at contact_info before name and email are there
C26_Witness ==
    /\ Processed
    /\ last.currentStep = "contact_info"
    /\ last.message = Str("555-123-4567")
    /\ last.intent.type = "phone"
    /\ Returned.currentStep = "contact_info"

\* C27: the first message processed after POST /session is processed at greeting:
\* whatever it says, the returned and the stored step are project_type and no project
\* type is recorded
C27_FirstMessageAtGreeting ==
    [][(/\ last.op = "POST /session"
        /\ last'.op \in { "POST /message", "send-message" }
        /\ ~last'.threw
        /\ last'.sessionId = last.sessionId) =>
           /\ last'.currentStep = "greeting"
           /\ last'.botResponse.context.currentStep = "project_type"
           /\ last'.botResponse.context.collectedData = EmptyObject
           /\ StepOf(getConversationContext(lastMessage', last'.sessionId))
                = "project_type"
           /\ ~Has(getConversationContext(lastMessage', last'.sessionId).collectedData,
                   "projectType")]_vars

\* "residential" as the first message of a created session
C27_Witness ==
    /\ Processed
    /\ last.found
    /\ last.context = [currentStep |-> "greeting", collectedData |-> EmptyObject,
                       userPreferences |-> EmptyObject]
    /\ last.message = Str("residential")
    /\ Returned.currentStep = "project_type"
    /\ ~Has(Stored(last.sessionId).collectedData, "projectType")

requiredFields == { "name", "email", "projectType", "roomSize", "budget" }

\* chatMessageSchema.methods.isConversationComplete
isConversationComplete(doc) ==
    \A field \in requiredFields :
        /\ Truthy(doc.context.collectedData, field)
        /\ trim(doc.context.collectedData[field]) # ""

\* C28: whenever the newest stored record of a session has currentStep = complete,
\* isConversationComplete() of that record is true: name, email, projectType, roomSize
\* and budget are all stored non-empty
C28_CompletionsAgree ==
    \A sessionId \in Sessions :
        (lastMessage[sessionId] # << >> /\ StepOf(Stored(sessionId)) = "complete") =>
            isConversationComplete(lastMessage[sessionId][1])

---------------------------------------------------------------------------
(* Design preferences                                                      *)

\* C29: updateDesignPreferences returns the loaded context with the preferences merged
\* over its userPreferences and with currentStep and collectedData as loaded, and
\* once it has written them into the newest record they are in the newest stored
\* context after any later processMessage call, also one that overlaps the update
C29_PreferencesKept ==
    \A c \in DOMAIN calls :
        (calls[c].pc = "done" /\ Has(calls[c], "preferences")) =>
            /\ calls[c].context.currentStep = calls[c].loaded.currentStep
            /\ calls[c].context.collectedData = calls[c].loaded.collectedData
            /\ \A p \in DOMAIN calls[c].preferences :
                   calls[c].context.userPreferences[p] = calls[c].preferences[p]
            /\ calls[c].written =>
                   \A p \in DOMAIN calls[c].preferences :
                       /\ Has(Stored(calls[c].sessionId).userPreferences, p)
                       /\ Stored(calls[c].sessionId).userPreferences[p]
                            = calls[c].preferences[p]

---------------------------------------------------------------------------
(* Session tracking                                                        *)

\* C30: after any sequence of join-session, leave-session and disconnect a socket has
\* an entry in activeSessions exactly when it is a member of at least one session room,
\* the entry names a session the socket is joined to, and a disconnected socket has no
\* entry
C30_EntryIffJoined ==
    \A socket \in SocketIds :
        IF socket \in DOMAIN rooms
        THEN /\ Has(activeSessions, socket) <=> rooms[socket] # {}
             /\ Has(activeSessions, socket) =>
                    activeSessions[socket].sessionId \in rooms[socket]
        ELSE ~Has(activeSessions, socket)

=============================================================================
